---- MODULE Spec2Model ----
(***************************************************************************)
(* Link (post) service and wiki service of the Reddit client.              *)
(*                                                                         *)
(* A string is a finite sequence of atoms (an atom stands for a character  *)
(* or for a literal that is never taken apart), so "" is << >> and         *)
(* concatenation is \o.  A nil pointer is << >> and a pointer to x is      *)
(* <<x>>.  A url.Values form is a function from its keys to strings.       *)
(*                                                                         *)
(* Every service method is two steps: the call (validation, form, request  *)
(* construction, handing the request to Client.Do) and the return of       *)
(* Client.Do, after which the method returns.  Calls run in slots; Spec    *)
(* is one caller using the client sequentially over the whole input space, *)
(* SpecConc is NCalls callers running concurrently over a few inputs.      *)
(***************************************************************************)
EXTENDS Integers, Sequences, FiniteSets, TLC

VARIABLES
    pc,           \* per call: "idle", "inflight" (inside Client.Do), "done"
    args,         \* per call: the method and its arguments
    form,         \* per call: the local form (pointer)
    req,          \* per call: the local request (pointer)
    root,         \* per call: the local decode target (pointer)
    wire,         \* per call: the requests handed to Client.Do, in order
    doOut,        \* per call: what Client.Do returned (pointer)
    ret,          \* per call: what the method returned (pointer)
    client,       \* the shared client handle of the service object
    actor,        \* the call that took the last step
    nilRejected   \* an UpdateSettings(nil) was rejected on this client

vars == <<pc, args, form, req, root, wire, doOut, ret, client, actor, nilRejected>>

\* ------------------------------------------------------------------ bounds

NCalls == 2
MaxIds == 2
MaxList == 2

Calls == 1..NCalls
SeqCalls == {1}

\* ----------------------------------------------------------------- strings

Nil == << >>
Comma == <<",">>
Lit(a) == <<a>>

FormatBool(b) == IF b THEN Lit("true") ELSE Lit("false")

RECURSIVE Join(_, _)
Join(elems, sep) ==
    IF Len(elems) = 0 THEN << >>
    ELSE IF Len(elems) = 1 THEN elems[1]
    ELSE elems[1] \o sep \o Join(Tail(elems), sep)

\* ------------------------------------------------------------------- forms

NewValues == [k \in {} |-> << >>]

FormSet(f, k, v) == [x \in (DOMAIN f) \cup {k} |-> IF x = k THEN v ELSE f[x]]

\* ------------------------------------------------------------------ errors

NoErr == "nil"
ErrNoIds == "must provide at least 1 id"
ErrNilUpdateRequest == "updateRequest: cannot be nil"
ErrNotStruct == "query: Values() expects struct input"
ErrNewRequest == "request construction failed"
ErrTransport == "transport failure"
ErrCanceled == "context canceled"
ErrStatus == "error response"
ErrDecode == "decode failure"

\* --------------------------------------------------------------- transport

\* Client.NewPostForm: a POST request carrying the form, or an error.
NewPostForm(path, f, built) ==
    IF built
    THEN [req |-> <<[method |-> "POST", path |-> path, form |-> f, query |-> Nil]>>,
          err |-> NoErr]
    ELSE [req |-> Nil, err |-> ErrNewRequest]

\* Client.NewRequest for a GET: no form, the list options as the query.
NewGetRequest(path, opts, built) ==
    IF built
    THEN [req |-> <<[method |-> "GET", path |-> path, form |-> NewValues, query |-> opts]>>,
          err |-> NoErr]
    ELSE [req |-> Nil, err |-> ErrNewRequest]

Response(code) == <<[status |-> code]>>

\* The ways Client.Do ends: no response at all (transport failure, canceled
\* context), an error status, a body that fails to decode after a part of it
\* was decoded into the target, or success.
TransportOutcome == [kind |-> "transport", resp |-> Nil, err |-> ErrTransport, body |-> Nil]
CanceledOutcome == [kind |-> "canceled", resp |-> Nil, err |-> ErrCanceled, body |-> Nil]
StatusOutcome == [kind |-> "status", resp |-> Response(500), err |-> ErrStatus, body |-> Nil]
DecodeOutcome(b) == [kind |-> "decode", resp |-> Response(200), err |-> ErrDecode, body |-> <<b>>]
OkOutcome(b) == [kind |-> "ok", resp |-> Response(200), err |-> NoErr, body |-> <<b>>]

\* What the method does before Client.Do: it returns early with an error, or
\* it enters Client.Do with its request and decode target.
Returned(f, e) == [kind |-> "return", form |-> f, req |-> Nil, target |-> Nil, err |-> e]
Doing(f, r, t) == [kind |-> "do", form |-> <<f>>, req |-> r, target |-> t, err |-> NoErr]

\* ---------------------------------------------------------- query encoding

StringField(k, v) == [key |-> k, kind |-> "string", val |-> <<v>>]
BoolField(k, v) == [key |-> k, kind |-> "bool", val |-> <<v>>]
PtrBoolField(k, v) == [key |-> k, kind |-> "ptrbool", val |-> <<v>>]

\* query.Values on a field tagged omitempty: dropped when empty.
IsEmptyValue(fld) ==
    CASE fld.kind = "string" -> Len(fld.val[1]) = 0
      [] fld.kind = "bool" -> ~fld.val[1]
      [] fld.kind = "ptrbool" -> Len(fld.val[1]) = 0

ValueString(fld) ==
    CASE fld.kind = "string" -> fld.val[1]
      [] fld.kind = "bool" -> FormatBool(fld.val[1])
      [] fld.kind = "ptrbool" -> FormatBool(fld.val[1][1])

RECURSIVE EncodeFields(_, _)
EncodeFields(flds, f) ==
    IF Len(flds) = 0 THEN f
    ELSE EncodeFields(Tail(flds),
                      IF IsEmptyValue(Head(flds)) THEN f
                      ELSE FormSet(f, Head(flds).key, ValueString(Head(flds))))

\* query.Values: an error unless the value is a struct.
QueryValues(v) ==
    IF ~v.isStruct THEN [form |-> NewValues, err |-> ErrNotStruct]
    ELSE [form |-> EncodeFields(v.fields, NewValues), err |-> NoErr]

\* ------------------------------------------------------------ link service

SubmitPath == <<"api", "/", "submit">>
SendRepliesPath == <<"api", "/", "sendreplies">>
MarkNSFWPath == <<"api", "/", "marknsfw">>
UnmarkNSFWPath == <<"api", "/", "unmarknsfw">>
SpoilerPath == <<"api", "/", "spoiler">>
UnspoilerPath == <<"api", "/", "unspoiler">>
HidePath == <<"api", "/", "hide">>
UnhidePath == <<"api", "/", "unhide">>

ZeroSubmitted == [ID |-> << >>, FullID |-> << >>, URL |-> << >>]
NewSubmittedLinkRoot == [Data |-> Nil]

SubmitSelfOptionsFields(o) ==
    << StringField("sr", o.Subreddit), StringField("title", o.Title),
       StringField("text", o.Text),
       StringField("flair_id", o.FlairID), StringField("flair_text", o.FlairText),
       PtrBoolField("sendreplies", o.SendReplies),
       BoolField("nsfw", o.NSFW), BoolField("spoiler", o.Spoiler) >>

SubmitURLOptionsFields(o) ==
    << StringField("sr", o.Subreddit), StringField("title", o.Title),
       StringField("url", o.URL),
       StringField("flair_id", o.FlairID), StringField("flair_text", o.FlairText),
       PtrBoolField("sendreplies", o.SendReplies),
       BoolField("resubmit", o.Resubmit),
       BoolField("nsfw", o.NSFW), BoolField("spoiler", o.Spoiler) >>

\* Mutant of SubmitCall: api_type is not set.
SubmitCallNoApiType(v, built) ==
    LET enc == QueryValues(v)
        r == NewPostForm(SubmitPath, enc.form, built)
    IN  IF enc.err # NoErr THEN Returned(Nil, enc.err)
        ELSE IF r.err # NoErr THEN Returned(<<enc.form>>, r.err)
        ELSE Doing(enc.form, r.req, <<NewSubmittedLinkRoot>>)

\* submit, up to its call of Client.Do.
SubmitCall(v, built) ==
    LET enc == QueryValues(v)
        f == FormSet(enc.form, "api_type", Lit("json"))
        r == NewPostForm(SubmitPath, f, built)
    IN  IF enc.err # NoErr THEN Returned(Nil, enc.err)
        ELSE IF r.err # NoErr THEN Returned(<<f>>, r.err)
        ELSE Doing(f, r.req, <<NewSubmittedLinkRoot>>)

\* The struct SubmitSelf encodes: the options, embedded, and Kind.
SubmitSelfCall(opts, built) ==
    SubmitCall([isStruct |-> TRUE,
                fields |-> <<StringField("kind", Lit("self"))>>
                           \o SubmitSelfOptionsFields(opts)], built)

SubmitURLCall(opts, built) ==
    SubmitCall([isStruct |-> TRUE,
                fields |-> <<StringField("kind", Lit("link"))>>
                           \o SubmitURLOptionsFields(opts)], built)

\* Mutant of SubmitReturn: a zero Submitted stands in for missing data.
SubmitReturnZeroForNil(rootp, resp, err) ==
    IF err # NoErr THEN [val |-> Nil, resp |-> resp, err |-> err]
    ELSE [val |-> IF rootp[1].Data = Nil THEN <<ZeroSubmitted>> ELSE rootp[1].Data,
          resp |-> resp, err |-> NoErr]

\* Mutant of SubmitReturn: the decoded data is returned with the error.
SubmitReturnKeepsData(rootp, resp, err) ==
    [val |-> rootp[1].Data, resp |-> resp, err |-> err]

\* submit, after Client.Do returned.
SubmitReturn(rootp, resp, err) ==
    IF err # NoErr THEN [val |-> Nil, resp |-> resp, err |-> err]
    ELSE [val |-> rootp[1].Data, resp |-> resp, err |-> NoErr]

\* Mutant of DoReturn: the error of Client.Do is dropped.
DoReturnErrorDropped(resp, err) == [val |-> Nil, resp |-> resp, err |-> NoErr]

\* return s.client.Do(ctx, req, nil)
DoReturn(resp, err) == [val |-> Nil, resp |-> resp, err |-> err]

\* A method that posts a form to a path and decodes nothing.
PostFormCall(path, f, built) ==
    LET r == NewPostForm(path, f, built)
    IN  IF r.err # NoErr THEN Returned(<<f>>, r.err) ELSE Doing(f, r.req, Nil)

EnableRepliesCall(id, built) ==
    PostFormCall(SendRepliesPath,
                 FormSet(FormSet(NewValues, "id", id), "state", Lit("true")), built)

\* Mutant of DisableRepliesCall: the state of EnableReplies.
DisableRepliesCallStateTrue(id, built) ==
    PostFormCall(SendRepliesPath,
                 FormSet(FormSet(NewValues, "id", id), "state", Lit("true")), built)

DisableRepliesCall(id, built) ==
    PostFormCall(SendRepliesPath,
                 FormSet(FormSet(NewValues, "id", id), "state", Lit("false")), built)

MarkNSFWCall(id, built) == PostFormCall(MarkNSFWPath, FormSet(NewValues, "id", id), built)

UnmarkNSFWCall(id, built) == PostFormCall(UnmarkNSFWPath, FormSet(NewValues, "id", id), built)

SpoilerCall(id, built) == PostFormCall(SpoilerPath, FormSet(NewValues, "id", id), built)

UnspoilerCall(id, built) == PostFormCall(UnspoilerPath, FormSet(NewValues, "id", id), built)

\* Mutant of HideCall: the check of the id list is missing.
HideCallUnchecked(ids, built) ==
    PostFormCall(HidePath, FormSet(NewValues, "id", Join(ids, Comma)), built)

HideCall(ids, built) ==
    IF Len(ids) = 0 THEN Returned(Nil, ErrNoIds)
    ELSE PostFormCall(HidePath, FormSet(NewValues, "id", Join(ids, Comma)), built)

UnhideCall(ids, built) ==
    IF Len(ids) = 0 THEN Returned(Nil, ErrNoIds)
    ELSE PostFormCall(UnhidePath, FormSet(NewValues, "id", Join(ids, Comma)), built)

\* ------------------------------------------------------------ wiki service

WikiPagePath(sub, page) == <<"r", "/">> \o sub \o <<"/", "wiki", "/">> \o page
WikiPagesPath(sub) == <<"r", "/">> \o sub \o <<"/", "wiki", "/", "pages">>
WikiSettingsPath(sub, page) ==
    <<"r", "/">> \o sub \o <<"/", "wiki", "/", "settings", "/">> \o page
WikiAllowPath(sub) ==
    <<"r", "/">> \o sub \o <<"/", "api", "/", "wiki", "/", "alloweditor", "/", "add">>
WikiDenyPath(sub) ==
    <<"r", "/">> \o sub \o <<"/", "api", "/", "wiki", "/", "alloweditor", "/", "del">>
WikiDiscussionsPath(sub, page) ==
    <<"r", "/">> \o sub \o <<"/", "wiki", "/", "discussions", "/">> \o page

\* The permission levels, that is their integer forms.
PermissionLevels == {0, 1, 2}

FormatInt(n) == CASE n = 0 -> Lit("0") [] n = 1 -> Lit("1") [] n = 2 -> Lit("2")

\* The decode target of the wiki methods: a kind and its data.
NewThing == [Kind |-> << >>, Data |-> Nil]

\* Mutant of GetCall: the request goes out as a POST.
GetCallAsPost(path, opts, built) ==
    LET r == NewPostForm(path, NewValues, built)
    IN  IF r.err # NoErr THEN Returned(Nil, r.err) ELSE Doing(NewValues, r.req, <<NewThing>>)

\* A method that sends a GET and decodes the body into a thing.
GetCall(path, opts, built) ==
    LET r == NewGetRequest(path, opts, built)
    IN  IF r.err # NoErr THEN Returned(Nil, r.err) ELSE Doing(NewValues, r.req, <<NewThing>>)

PageCall(sub, page, built) == GetCall(WikiPagePath(sub, page), Nil, built)

PagesCall(sub, built) == GetCall(WikiPagesPath(sub), Nil, built)

SettingsCall(sub, page, built) == GetCall(WikiSettingsPath(sub, page), Nil, built)

DiscussionsCall(sub, page, opts, built) ==
    GetCall(WikiDiscussionsPath(sub, page), opts, built)

\* Mutant of UpdateRequestForm: permlevel is sent also when it is not set.
UpdateRequestFormAlwaysLevel(u) ==
    LET withLevel == FormSet(NewValues, "permlevel",
                             IF u.PermissionLevel = Nil THEN Lit("0")
                             ELSE FormatInt(u.PermissionLevel[1]))
    IN  IF u.Listed = Nil THEN withLevel
        ELSE FormSet(withLevel, "listed", FormatBool(u.Listed[1]))

\* The fields of the update request: each is sent only when present.
UpdateRequestForm(u) ==
    LET withLevel == IF u.PermissionLevel = Nil THEN NewValues
                     ELSE FormSet(NewValues, "permlevel", FormatInt(u.PermissionLevel[1]))
    IN  IF u.Listed = Nil THEN withLevel
        ELSE FormSet(withLevel, "listed", FormatBool(u.Listed[1]))

\* Mutant of UpdateSettingsCall: a nil request is sent as an empty form.
UpdateSettingsCallUnchecked(sub, page, upd, built) ==
    LET f == IF upd = Nil THEN NewValues ELSE UpdateRequestForm(upd[1])
        r == NewPostForm(WikiSettingsPath(sub, page), f, built)
    IN  IF r.err # NoErr THEN Returned(<<f>>, r.err)
        ELSE Doing(f, r.req, <<NewThing>>)

UpdateSettingsCall(sub, page, upd, built) ==
    IF upd = Nil THEN Returned(Nil, ErrNilUpdateRequest)
    ELSE LET f == UpdateRequestForm(upd[1])
             r == NewPostForm(WikiSettingsPath(sub, page), f, built)
         IN  IF r.err # NoErr THEN Returned(<<f>>, r.err)
             ELSE Doing(f, r.req, <<NewThing>>)

AllowCall(sub, page, user, built) ==
    PostFormCall(WikiAllowPath(sub),
                 FormSet(FormSet(NewValues, "page", page), "username", user), built)

DenyCall(sub, page, user, built) ==
    PostFormCall(WikiDenyPath(sub),
                 FormSet(FormSet(NewValues, "page", page), "username", user), built)

\* The posts of a listing, in the order of its children.
ListingPosts(listing) == [i \in 1..Len(listing.children) |-> listing.children[i].data]

\* Page, Pages, Settings, UpdateSettings after Client.Do returned.
ThingReturn(rootp, resp, err) ==
    IF err # NoErr THEN [val |-> Nil, resp |-> resp, err |-> err]
    ELSE [val |-> rootp[1].Data, resp |-> resp, err |-> NoErr]

\* Discussions after Client.Do returned.
DiscussionsReturn(rootp, resp, err) ==
    IF err # NoErr THEN [val |-> Nil, resp |-> resp, err |-> err]
    ELSE [val |-> IF rootp[1].Data = Nil THEN Nil ELSE <<ListingPosts(rootp[1].Data[1])>>,
          resp |-> resp, err |-> NoErr]

\* ------------------------------------------------------------ JSON decoding

\* json.Unmarshal into a submittedLinkRoot: an absent key leaves the field
\* alone, null sets the pointer to nil, an object fills the pointee.
DecodeSubmitted(r, b) ==
    LET j == b.json.data
        base == IF r.Data = Nil THEN ZeroSubmitted ELSE r.Data[1]
        get(k, old) == IF k \in DOMAIN j.v THEN j.v[k] ELSE old
    IN  CASE j.t = "absent" -> r
          [] j.t = "null" -> [r EXCEPT !.Data = Nil]
          [] j.t = "object" ->
                [r EXCEPT !.Data = <<[ID |-> get("id", base.ID),
                                      FullID |-> get("name", base.FullID),
                                      URL |-> get("url", base.URL)]>>]

\* json.Unmarshal into a thing.
DecodeThing(r, b) == [Kind |-> b.kind, Data |-> <<b.data>>]

\* Client.Do decodes the body into the target when there is one.
DoDecode(targetp, out) ==
    IF targetp = Nil \/ out.body = Nil THEN targetp
    ELSE IF "Kind" \in DOMAIN targetp[1] THEN <<DecodeThing(targetp[1], out.body[1])>>
    ELSE <<DecodeSubmitted(targetp[1], out.body[1])>>

\* ------------------------------------------------------------------ inputs

SeqsUpTo(S, n) == UNION {[1..k -> S] : k \in 0..n}

\* Ids: the empty id, plain ids, an id that holds a comma.
IdSet == {<< >>, <<"a">>, <<"b">>, <<"a", ",", "b">>}
IdLists == SeqsUpTo(IdSet, MaxIds)

StrVals == {<< >>, <<"x">>}
PtrBools == {Nil, <<TRUE>>, <<FALSE>>}

SelfOptions ==
    [Subreddit : StrVals, Title : StrVals, Text : StrVals, FlairID : StrVals,
     FlairText : StrVals, SendReplies : PtrBools, NSFW : BOOLEAN, Spoiler : BOOLEAN]

URLOptions ==
    [Subreddit : StrVals, Title : StrVals, URL : StrVals, FlairID : StrVals,
     FlairText : StrVals, SendReplies : PtrBools, Resubmit : BOOLEAN, NSFW : BOOLEAN,
     Spoiler : BOOLEAN]

Subreddits == {<<"testsubreddit">>, <<"sub2">>}
PageNames == {<<"testpage">>, <<"faq">>}
UserNames == {<<"testusername">>, <<"v_95">>}
ListOptions == {Nil, <<[Limit |-> 5, After |-> <<"t3_x">>]>>}

UpdateRequests ==
    {Nil} \cup {<<[Listed |-> l, PermissionLevel |-> p]>> :
                    l \in PtrBools, p \in {Nil} \cup {<<n>> : n \in PermissionLevels}}

\* The bodies the submit endpoint answers with: {"json":{}}, {"json":{"data":null}},
\* and {"json":{"data":{...}}} with any of the keys id, name, url.
SubmittedJSON == [id |-> <<"abc">>, name |-> <<"t3_abc">>, url |-> <<"u">>]
SubmitBodies ==
    {[json |-> [data |-> [t |-> "absent", v |-> NewValues]]],
     [json |-> [data |-> [t |-> "null", v |-> NewValues]]]}
    \cup {[json |-> [data |-> [t |-> "object", v |-> [k \in K |-> SubmittedJSON[k]]]]] :
              K \in SUBSET {"id", "name", "url"}}

WikiPageBodies ==
    {[kind |-> Lit("wikipage"), data |-> d] :
        d \in {[Content |-> Lit("test reason"), MayRevise |-> TRUE],
               [Content |-> Lit("other"), MayRevise |-> FALSE]}}

WikiPagesBodies ==
    {[kind |-> Lit("wikipagelisting"), data |-> d] :
        d \in SeqsUpTo({Lit("faq"), Lit("index")}, MaxList)}

WikiSettingsBodies ==
    {[kind |-> Lit("wikipagesettings"), data |-> d] :
        d \in {[PermissionLevel |-> 0, Listed |-> TRUE, Editors |-> <<Lit("v_95")>>],
               [PermissionLevel |-> 1, Listed |-> FALSE, Editors |-> << >>]}}

Posts == {[ID |-> Lit("imj8g5")], [ID |-> Lit("other")]}
WikiDiscussionsBodies ==
    {[kind |-> Lit("Listing"),
      data |-> [children |-> [i \in DOMAIN ps |-> [kind |-> Lit("t3"), data |-> ps[i]]]]] :
        ps \in SeqsUpTo(Posts, MaxList)}

SubmitMethods == {"SubmitSelf", "SubmitURL"}
ThingMethods == {"Page", "Pages", "Settings", "UpdateSettings"}

Bodies(m) ==
    CASE m \in SubmitMethods -> SubmitBodies
      [] m = "Page" -> WikiPageBodies
      [] m = "Pages" -> WikiPagesBodies
      [] m \in {"Settings", "UpdateSettings"} -> WikiSettingsBodies
      [] m = "Discussions" -> WikiDiscussionsBodies
      [] OTHER -> {}

\* What Client.Do may return to a call of method m.
DoOutcomes(m, targetp) ==
    {TransportOutcome, CanceledOutcome, StatusOutcome}
    \cup (IF targetp = Nil
          THEN {[kind |-> "ok", resp |-> Response(200), err |-> NoErr, body |-> Nil]}
          ELSE {OkOutcome(b) : b \in Bodies(m)} \cup {DecodeOutcome(b) : b \in Bodies(m)})

\* ----------------------------------------------------------- state machine

\* Mutant of Local: form, req and root are fields shared by all calls.
SharedFrame(c) == 1

\* form, req and root are locals of the call's own frame.
Local(c) == c

Init ==
    /\ pc = [c \in Calls |-> "idle"]
    /\ args = [c \in Calls |-> [m |-> "none"]]
    /\ form = [c \in Calls |-> Nil]
    /\ req = [c \in Calls |-> Nil]
    /\ root = [c \in Calls |-> Nil]
    /\ wire = [c \in Calls |-> << >>]
    /\ doOut = [c \in Calls |-> Nil]
    /\ ret = [c \in Calls |-> Nil]
    /\ client = [BaseURL |-> Lit("https://oauth.reddit.com/")]
    /\ actor = 0
    /\ nilRejected = FALSE

\* Call c runs method a.m up to Client.Do, or to its early return.
Enter(c, a, step) ==
    /\ args' = [args EXCEPT ![c] = a]
    /\ form' = [form EXCEPT ![Local(c)] = step.form]
    /\ req' = [req EXCEPT ![Local(c)] = step.req]
    /\ root' = [root EXCEPT ![Local(c)] = step.target]
    /\ IF step.kind = "do"
       THEN /\ wire' = [wire EXCEPT ![c] = Append(wire[c], step.req[1])]
            /\ pc' = [pc EXCEPT ![c] = "inflight"]
            /\ ret' = ret
       ELSE /\ wire' = wire
            /\ pc' = [pc EXCEPT ![c] = "done"]
            /\ ret' = [ret EXCEPT ![c] = <<[val |-> Nil, resp |-> Nil, err |-> step.err]>>]
    /\ nilRejected' = (nilRejected \/ step.err = ErrNilUpdateRequest)
    /\ actor' = c
    /\ UNCHANGED <<doOut, client>>

SubmitSelf(c, opts, built) ==
    /\ pc[c] = "idle"
    /\ Enter(c, [m |-> "SubmitSelf", opts |-> opts], SubmitSelfCall(opts, built))

SubmitURL(c, opts, built) ==
    /\ pc[c] = "idle"
    /\ Enter(c, [m |-> "SubmitURL", opts |-> opts], SubmitURLCall(opts, built))

EnableReplies(c, id, built) ==
    /\ pc[c] = "idle"
    /\ Enter(c, [m |-> "EnableReplies", id |-> id], EnableRepliesCall(id, built))

DisableReplies(c, id, built) ==
    /\ pc[c] = "idle"
    /\ Enter(c, [m |-> "DisableReplies", id |-> id], DisableRepliesCall(id, built))

MarkNSFW(c, id, built) ==
    /\ pc[c] = "idle"
    /\ Enter(c, [m |-> "MarkNSFW", id |-> id], MarkNSFWCall(id, built))

UnmarkNSFW(c, id, built) ==
    /\ pc[c] = "idle"
    /\ Enter(c, [m |-> "UnmarkNSFW", id |-> id], UnmarkNSFWCall(id, built))

Spoiler(c, id, built) ==
    /\ pc[c] = "idle"
    /\ Enter(c, [m |-> "Spoiler", id |-> id], SpoilerCall(id, built))

Unspoiler(c, id, built) ==
    /\ pc[c] = "idle"
    /\ Enter(c, [m |-> "Unspoiler", id |-> id], UnspoilerCall(id, built))

Hide(c, ids, built) ==
    /\ pc[c] = "idle"
    /\ Enter(c, [m |-> "Hide", ids |-> ids], HideCall(ids, built))

Unhide(c, ids, built) ==
    /\ pc[c] = "idle"
    /\ Enter(c, [m |-> "Unhide", ids |-> ids], UnhideCall(ids, built))

Page(c, sub, page, built) ==
    /\ pc[c] = "idle"
    /\ Enter(c, [m |-> "Page", sub |-> sub, page |-> page], PageCall(sub, page, built))

Pages(c, sub, built) ==
    /\ pc[c] = "idle"
    /\ Enter(c, [m |-> "Pages", sub |-> sub], PagesCall(sub, built))

Settings(c, sub, page, built) ==
    /\ pc[c] = "idle"
    /\ Enter(c, [m |-> "Settings", sub |-> sub, page |-> page], SettingsCall(sub, page, built))

UpdateSettings(c, sub, page, upd, built) ==
    /\ pc[c] = "idle"
    /\ Enter(c, [m |-> "UpdateSettings", sub |-> sub, page |-> page, upd |-> upd], UpdateSettingsCall(sub, page, upd, built))

Allow(c, sub, page, user, built) ==
    /\ pc[c] = "idle"
    /\ Enter(c, [m |-> "Allow", sub |-> sub, page |-> page, user |-> user], AllowCall(sub, page, user, built))

Deny(c, sub, page, user, built) ==
    /\ pc[c] = "idle"
    /\ Enter(c, [m |-> "Deny", sub |-> sub, page |-> page, user |-> user], DenyCall(sub, page, user, built))

Discussions(c, sub, page, opts, built) ==
    /\ pc[c] = "idle"
    /\ Enter(c, [m |-> "Discussions", sub |-> sub, page |-> page, opts |-> opts], DiscussionsCall(sub, page, opts, built))

\* What method m returns once Client.Do returned (resp, err).
MethodReturn(m, rootp, resp, err) ==
    CASE m \in SubmitMethods -> SubmitReturn(rootp, resp, err)
      [] m \in ThingMethods -> ThingReturn(rootp, resp, err)
      [] m = "Discussions" -> DiscussionsReturn(rootp, resp, err)
      [] OTHER -> DoReturn(resp, err)

\* Client.Do returns to call c, and the method returns.
DoReturns(c, outs) ==
    /\ pc[c] = "inflight"
    /\ \E out \in outs :
          LET decoded == DoDecode(root[Local(c)], out)
          IN  /\ root' = [root EXCEPT ![Local(c)] = decoded]
              /\ ret' = [ret EXCEPT ![c] =
                            <<MethodReturn(args[c].m, decoded, out.resp, out.err)>>]
              /\ doOut' = [doOut EXCEPT ![c] = <<out>>]
    /\ pc' = [pc EXCEPT ![c] = "done"]
    /\ actor' = c
    /\ UNCHANGED <<args, form, req, wire, client, nilRejected>>

\* The caller takes the result; the call's frame is gone.
Return(c) ==
    /\ pc[c] = "done"
    /\ pc' = [pc EXCEPT ![c] = "idle"]
    /\ args' = [args EXCEPT ![c] = [m |-> "none"]]
    /\ form' = [form EXCEPT ![Local(c)] = Nil]
    /\ req' = [req EXCEPT ![Local(c)] = Nil]
    /\ root' = [root EXCEPT ![Local(c)] = Nil]
    /\ wire' = [wire EXCEPT ![c] = << >>]
    /\ doOut' = [doOut EXCEPT ![c] = Nil]
    /\ ret' = [ret EXCEPT ![c] = Nil]
    /\ actor' = c
    /\ UNCHANGED <<client, nilRejected>>

\* One caller, using the client sequentially.
Next ==
    \/ \E c \in SeqCalls, o \in SelfOptions, b \in BOOLEAN : SubmitSelf(c, o, b)
    \/ \E c \in SeqCalls, o \in URLOptions, b \in BOOLEAN : SubmitURL(c, o, b)
    \/ \E c \in SeqCalls, id \in IdSet, b \in BOOLEAN : EnableReplies(c, id, b)
    \/ \E c \in SeqCalls, id \in IdSet, b \in BOOLEAN : DisableReplies(c, id, b)
    \/ \E c \in SeqCalls, id \in IdSet, b \in BOOLEAN : MarkNSFW(c, id, b)
    \/ \E c \in SeqCalls, id \in IdSet, b \in BOOLEAN : UnmarkNSFW(c, id, b)
    \/ \E c \in SeqCalls, id \in IdSet, b \in BOOLEAN : Spoiler(c, id, b)
    \/ \E c \in SeqCalls, id \in IdSet, b \in BOOLEAN : Unspoiler(c, id, b)
    \/ \E c \in SeqCalls, ids \in IdLists, b \in BOOLEAN : Hide(c, ids, b)
    \/ \E c \in SeqCalls, ids \in IdLists, b \in BOOLEAN : Unhide(c, ids, b)
    \/ \E c \in SeqCalls, s \in Subreddits, p \in PageNames, b \in BOOLEAN : Page(c, s, p, b)
    \/ \E c \in SeqCalls, s \in Subreddits, b \in BOOLEAN : Pages(c, s, b)
    \/ \E c \in SeqCalls, s \in Subreddits, p \in PageNames, b \in BOOLEAN : Settings(c, s, p, b)
    \/ \E c \in SeqCalls, s \in Subreddits, p \in PageNames, u \in UpdateRequests, b \in BOOLEAN :
          UpdateSettings(c, s, p, u, b)
    \/ \E c \in SeqCalls, s \in Subreddits, p \in PageNames, u \in UserNames, b \in BOOLEAN :
          Allow(c, s, p, u, b)
    \/ \E c \in SeqCalls, s \in Subreddits, p \in PageNames, u \in UserNames, b \in BOOLEAN :
          Deny(c, s, p, u, b)
    \/ \E c \in SeqCalls, s \in Subreddits, p \in PageNames, o \in ListOptions, b \in BOOLEAN :
          Discussions(c, s, p, o, b)
    \/ \E c \in SeqCalls : DoReturns(c, DoOutcomes(args[c].m, root[Local(c)]))
    \/ \E c \in SeqCalls : Return(c)

Spec == Init /\ [][Next]_vars

\* NCalls callers on the same service object, over a few inputs.
ConcSelfOptions ==
    {o \in SelfOptions : /\ o.Subreddit = Lit("x") /\ o.Title = Lit("x") /\ o.Text = << >>
                         /\ o.FlairID = << >> /\ o.FlairText = << >>
                         /\ o.SendReplies = Nil /\ ~o.Spoiler}
ConcIdLists == {<< >>, <<Lit("a")>>, <<Lit("a"), Lit("b")>>}
ConcOutcomes(m, targetp) ==
    {o \in DoOutcomes(m, targetp) :
        \/ o.kind \in {"transport", "status"}
        \/ o.kind = "ok" /\ (o.body = Nil \/ DOMAIN o.body[1].json.data.v # {"id"})}

NextConc ==
    \/ \E c \in Calls, o \in ConcSelfOptions, b \in BOOLEAN : SubmitSelf(c, o, b)
    \/ \E c \in Calls, ids \in ConcIdLists, b \in BOOLEAN : Hide(c, ids, b)
    \/ \E c \in Calls : DoReturns(c, ConcOutcomes(args[c].m, root[Local(c)]))
    \/ \E c \in Calls : Return(c)

SpecConc == Init /\ [][NextConc]_vars

\* ------------------------------------------------------------------ claims

Sent(c) == {wire[c][i] : i \in DOMAIN wire[c]}
Done(c) == pc[c] = "done"
DoCalled(c) == pc[c] = "inflight" \/ doOut[c] # Nil
Succeeded(c) == Done(c) /\ ret[c][1].err = NoErr

\* Where the i-th of the joined elements starts in the joined string.
RECURSIVE JoinOffset(_, _)
JoinOffset(ids, i) == IF i = 1 THEN 0 ELSE JoinOffset(ids, i - 1) + Len(ids[i - 1]) + 1

\* s is the elements of ids in their order, one comma between neighbours.
IsCommaJoined(s, ids) ==
    /\ Len(ids) >= 1
    /\ Len(s) = JoinOffset(ids, Len(ids)) + Len(ids[Len(ids)])
    /\ \A i \in 1..Len(ids) :
          /\ SubSeq(s, JoinOffset(ids, i) + 1, JoinOffset(ids, i) + Len(ids[i])) = ids[i]
          /\ i < Len(ids) => s[JoinOffset(ids, i) + Len(ids[i]) + 1] = ","

\* C1: Hide (Unhide) with no ids returns an error and builds and sends nothing;
\* with ids it hands at most one request to the transport, exactly one unless
\* the request could not be constructed, and that request is a POST to api/hide
\* (api/unhide) whose only form field is id, the ids in their order joined by
\* commas.
C1_HideSendsJoinedIds ==
    \A c \in Calls :
        args[c].m \in {"Hide", "Unhide"} =>
            IF Len(args[c].ids) = 0
            THEN /\ Done(c)
                 /\ ret[c][1].err = "must provide at least 1 id"
                 /\ ret[c][1].resp = Nil
                 /\ form[c] = Nil /\ req[c] = Nil /\ wire[c] = << >> /\ doOut[c] = Nil
            ELSE /\ Len(wire[c]) <= 1
                 /\ DoCalled(c) => Len(wire[c]) = 1
                 /\ Succeeded(c) => Len(wire[c]) = 1
                 /\ \A r \in Sent(c) :
                       /\ r.method = "POST"
                       /\ r.path = IF args[c].m = "Hide" THEN <<"api", "/", "hide">>
                                   ELSE <<"api", "/", "unhide">>
                       /\ DOMAIN r.form = {"id"}
                       /\ IsCommaJoined(r.form["id"], args[c].ids)

C1_Witness ==
    \E c \in Calls :
        /\ args[c].m = "Hide" /\ Len(args[c].ids) = 2 /\ args[c].ids[1] # args[c].ids[2]
        /\ Succeeded(c) /\ Len(wire[c]) = 1
        /\ wire[c][1].form["id"] = args[c].ids[1] \o <<",">> \o args[c].ids[2]

\* C2: UpdateSettings with a nil request returns "updateRequest: cannot be nil"
\* and hands nothing to the transport; an UpdateSettings with a request, also
\* after such a rejection on the same client, sends its POST, and returns no
\* error when the transport reports none.
C2_NilUpdateRejected ==
    \A c \in Calls :
        args[c].m = "UpdateSettings" =>
            IF args[c].upd = Nil
            THEN /\ Done(c) /\ nilRejected
                 /\ ret[c][1] = [val |-> Nil, resp |-> Nil, err |-> "updateRequest: cannot be nil"]
                 /\ req[c] = Nil /\ wire[c] = << >> /\ doOut[c] = Nil
            ELSE /\ DoCalled(c) => /\ Len(wire[c]) = 1
                                   /\ wire[c][1].method = "POST"
                 /\ (doOut[c] # Nil /\ doOut[c][1].err = NoErr) => Succeeded(c)
                 /\ Done(c) => ret[c][1].err # "updateRequest: cannot be nil"

C2_Witness ==
    /\ nilRejected
    /\ \E c \in Calls :
          /\ args[c].m = "UpdateSettings" /\ args[c].upd # Nil
          /\ Succeeded(c) /\ Len(wire[c]) = 1 /\ wire[c][1].method = "POST"

\* C3: whatever the options, the form SubmitSelf builds and sends has kind=self
\* and api_type=json, the form of SubmitURL kind=link and api_type=json, and the
\* request is a POST to api/submit.
C3_SubmitKindAndApiType ==
    \A c \in Calls :
        args[c].m \in {"SubmitSelf", "SubmitURL"} =>
            /\ form[c] # Nil
            /\ {"kind", "api_type"} \subseteq DOMAIN form[c][1]
            /\ form[c][1]["kind"] = IF args[c].m = "SubmitSelf" THEN <<"self">> ELSE <<"link">>
            /\ form[c][1]["api_type"] = <<"json">>
            /\ \A r \in Sent(c) :
                  r.method = "POST" /\ r.path = <<"api", "/", "submit">> /\ r.form = form[c][1]
            /\ DoCalled(c) => Len(wire[c]) = 1

C3_Witness ==
    \E c \in Calls :
        /\ args[c].m = "SubmitSelf" /\ pc[c] = "inflight"
        /\ args[c].opts = [Subreddit |-> << >>, Title |-> << >>, Text |-> << >>,
                           FlairID |-> << >>, FlairText |-> << >>, SendReplies |-> Nil,
                           NSFW |-> FALSE, Spoiler |-> FALSE]
        /\ DOMAIN wire[c][1].form = {"kind", "api_type"}

\* The Submitted record a data object stands for: a key that is absent leaves
\* its field empty.
SubmittedOf(v) ==
    [ID |-> IF "id" \in DOMAIN v THEN v["id"] ELSE << >>,
     FullID |-> IF "name" \in DOMAIN v THEN v["name"] ELSE << >>,
     URL |-> IF "url" \in DOMAIN v THEN v["url"] ELSE << >>]

\* The submit calls whose Client.Do reported no error.
SubmitAnswered(c) ==
    /\ args[c].m \in {"SubmitSelf", "SubmitURL"}
    /\ doOut[c] # Nil /\ doOut[c][1].err = NoErr

\* C4 as stated: with data the inner record is returned, with data null or
\* absent a Submitted of zero value (all fields empty), and no error.
C4_AsStated ==
    \A c \in Calls :
        SubmitAnswered(c) =>
            LET j == doOut[c][1].body[1].json.data
            IN  /\ ret[c][1].err = NoErr
                /\ ret[c][1].val = IF j.t = "object" THEN <<SubmittedOf(j.v)>>
                                   ELSE <<[ID |-> << >>, FullID |-> << >>, URL |-> << >>]>>

\* C4 amended: with data the inner record is returned, with data null or absent
\* a nil Submitted pointer (no record at all), and no error.
C4_SubmitUnwrapsData ==
    \A c \in Calls :
        SubmitAnswered(c) =>
            LET j == doOut[c][1].body[1].json.data
            IN  /\ ret[c][1].err = NoErr
                /\ ret[c][1].val = IF j.t = "object" THEN <<SubmittedOf(j.v)>> ELSE Nil

C4_Witness ==
    \E c \in Calls :
        /\ SubmitAnswered(c) /\ Done(c)
        /\ doOut[c][1].body[1].json.data.t = "null"
        /\ ret[c][1].val = Nil /\ ret[c][1].err = NoErr

DocumentedPost(a) ==
    CASE a.m = "EnableReplies" ->
            [path |-> <<"api", "/", "sendreplies">>, form |-> [id |-> a.id, state |-> <<"true">>]]
      [] a.m = "DisableReplies" ->
            [path |-> <<"api", "/", "sendreplies">>, form |-> [id |-> a.id, state |-> <<"false">>]]
      [] a.m = "MarkNSFW" -> [path |-> <<"api", "/", "marknsfw">>, form |-> [id |-> a.id]]
      [] a.m = "UnmarkNSFW" -> [path |-> <<"api", "/", "unmarknsfw">>, form |-> [id |-> a.id]]
      [] a.m = "Spoiler" -> [path |-> <<"api", "/", "spoiler">>, form |-> [id |-> a.id]]
      [] a.m = "Unspoiler" -> [path |-> <<"api", "/", "unspoiler">>, form |-> [id |-> a.id]]
      [] a.m = "Allow" ->
            [path |-> <<"r", "/">> \o a.sub
                      \o <<"/", "api", "/", "wiki", "/", "alloweditor", "/", "add">>,
             form |-> [page |-> a.page, username |-> a.user]]
      [] a.m = "Deny" ->
            [path |-> <<"r", "/">> \o a.sub
                      \o <<"/", "api", "/", "wiki", "/", "alloweditor", "/", "del">>,
             form |-> [page |-> a.page, username |-> a.user]]

\* C6: a successful EnableReplies, DisableReplies, MarkNSFW, UnmarkNSFW, Spoiler,
\* Unspoiler, Allow or Deny has sent exactly one request, a POST to its
\* documented path with exactly its documented form.
C6_MutatingCallsPostDocumentedForm ==
    \A c \in Calls :
        (/\ args[c].m \in {"EnableReplies", "DisableReplies", "MarkNSFW", "UnmarkNSFW",
                           "Spoiler", "Unspoiler", "Allow", "Deny"}
         /\ Succeeded(c)) =>
            /\ Len(wire[c]) = 1
            /\ wire[c][1].method = "POST"
            /\ wire[c][1].path = DocumentedPost(args[c]).path
            /\ wire[c][1].form = DocumentedPost(args[c]).form

C6_Witness ==
    \E c \in Calls :
        /\ args[c].m = "DisableReplies" /\ Succeeded(c)
        /\ wire[c] = <<[method |-> "POST", path |-> <<"api", "/", "sendreplies">>,
                        form |-> [id |-> args[c].id, state |-> <<"false">>], query |-> Nil]>>

\* C7: no call hands more than one request to Client.Do; when Client.Do has
\* returned the call is over, and an error it returned (transport failure,
\* decode failure, canceled context, error status) is the error the method
\* returns.
C7_NoRetryErrorUnchanged ==
    \A c \in Calls :
        /\ Len(wire[c]) <= 1
        /\ doOut[c] # Nil =>
              /\ Done(c)
              /\ Len(wire[c]) = 1
              /\ doOut[c][1].err # NoErr => ret[c][1].err = doOut[c][1].err

C7_Witness ==
    \E c \in Calls :
        /\ Done(c) /\ doOut[c] # Nil /\ doOut[c][1].kind = "canceled"
        /\ ret[c][1].err = "context canceled" /\ Len(wire[c]) = 1

\* What a call with arguments a does on its own up to Client.Do.
OwnStep(a) ==
    CASE a.m = "SubmitSelf" -> SubmitSelfCall(a.opts, TRUE)
      [] a.m = "SubmitURL" -> SubmitURLCall(a.opts, TRUE)
      [] a.m = "Hide" -> HideCall(a.ids, TRUE)
      [] a.m = "Unhide" -> UnhideCall(a.ids, TRUE)

\* A step of one call leaves the client handle and every other call alone.
OnlyOwnFrame ==
    /\ client' = client
    /\ \A d \in Calls :
          d # actor' =>
              /\ pc'[d] = pc[d] /\ args'[d] = args[d] /\ form'[d] = form[d]
              /\ req'[d] = req[d] /\ root'[d] = root[d] /\ wire'[d] = wire[d]
              /\ doOut'[d] = doOut[d] /\ ret'[d] = ret[d]

\* The request a call sent and the result it returned are those its own
\* arguments and its own response determine.
OwnRequestAndResult ==
    \A c \in Calls :
        /\ wire[c] # << >> => wire[c] = <<OwnStep(args[c]).req[1]>>
        /\ (Done(c) /\ doOut[c] # Nil) =>
              ret[c][1] = MethodReturn(args[c].m,
                                       DoDecode(OwnStep(args[c]).target, doOut[c][1]),
                                       doOut[c][1].resp, doOut[c][1].err)

\* C8: with calls running concurrently on one service object, every step of a
\* call writes only that call's own form, request, decode target and result,
\* never the client handle or another call's, and the request each call sends
\* and the result it returns depend only on its own arguments and response.
C8_CallsAreIsolated == [][OnlyOwnFrame]_vars /\ []OwnRequestAndResult

C8_Witness ==
    \E c \in Calls, d \in Calls :
        /\ c # d
        /\ args[c].m = "SubmitSelf" /\ pc[c] = "inflight"
        /\ args[d].m = "SubmitSelf" /\ Done(d) /\ doOut[d] # Nil /\ actor = d
        /\ ret[d][1].val # Nil

\* The path of the wiki reads.
DocumentedGetPath(a) ==
    CASE a.m = "Page" -> <<"r", "/">> \o a.sub \o <<"/", "wiki", "/">> \o a.page
      [] a.m = "Pages" -> <<"r", "/">> \o a.sub \o <<"/", "wiki", "/", "pages">>
      [] a.m = "Settings" ->
            <<"r", "/">> \o a.sub \o <<"/", "wiki", "/", "settings", "/">> \o a.page
      [] a.m = "Discussions" ->
            <<"r", "/">> \o a.sub \o <<"/", "wiki", "/", "discussions", "/">> \o a.page

\* C9: Page, Pages, Settings and Discussions hand exactly one request to the
\* transport, a GET to their documented path, and no POST; when the transport
\* reports no error they return the payload of the response as it is, the page
\* names and the discussion posts in the order of the response.
C9_WikiReadsGetAndReturnPayload ==
    \A c \in Calls :
        args[c].m \in {"Page", "Pages", "Settings", "Discussions"} =>
            /\ Len(wire[c]) <= 1
            /\ DoCalled(c) => Len(wire[c]) = 1
            /\ \A r \in Sent(c) : r.method = "GET" /\ r.path = DocumentedGetPath(args[c])
            /\ (doOut[c] # Nil /\ doOut[c][1].err = NoErr) =>
                  LET data == doOut[c][1].body[1].data
                      val == ret[c][1].val
                  IN  /\ ret[c][1].err = NoErr
                      /\ val # Nil
                      /\ IF args[c].m = "Discussions"
                         THEN /\ Len(val[1]) = Len(data.children)
                              /\ \A i \in 1..Len(val[1]) : val[1][i] = data.children[i].data
                         ELSE val[1] = data

C9_Witness ==
    \E c \in Calls :
        /\ args[c].m = "Pages" /\ Succeeded(c) /\ doOut[c] # Nil
        /\ ret[c][1].val = << << <<"index">>, <<"faq">> >> >>
        /\ wire[c][1].method = "GET"

\* C10: a submit call that ended before Client.Do returns no Submitted, no
\* Response and an error, and has sent nothing; one whose Client.Do failed
\* returns a nil Submitted, also when the envelope was partly decoded, with the
\* Response and the error of Client.Do; a Submitted is returned only when
\* Client.Do reported no error.
C10_SubmitResultFollowsFailingStep ==
    \A c \in Calls :
        (args[c].m \in {"SubmitSelf", "SubmitURL"} /\ Done(c)) =>
            /\ doOut[c] = Nil =>
                  /\ wire[c] = << >>
                  /\ ret[c][1].val = Nil /\ ret[c][1].resp = Nil /\ ret[c][1].err # NoErr
            /\ (doOut[c] # Nil /\ doOut[c][1].err # NoErr) =>
                  /\ ret[c][1].val = Nil
                  /\ ret[c][1].resp = doOut[c][1].resp
                  /\ ret[c][1].err = doOut[c][1].err
            /\ ret[c][1].val # Nil => (doOut[c] # Nil /\ doOut[c][1].err = NoErr)

C10_Witness ==
    \E c \in Calls :
        /\ args[c].m = "SubmitURL" /\ Done(c)
        /\ doOut[c] # Nil /\ doOut[c][1].kind = "decode"
        /\ root[c] # Nil /\ root[c][1].Data # Nil
        /\ ret[c][1].val = Nil /\ ret[c][1].resp # Nil

====
